---- MODULE Spec2Model ----
(***************************************************************************)
(* Model of the replay server of cmd/gapir/cc/main.cpp: the per-connection *)
(* request loop installed by Setup, its two helpers cleanup_state and      *)
(* prime_state, the shared PrewarmData and the std::mutex that guards the  *)
(* request handling.                                                       *)
(*                                                                         *)
(* Each connection is a process with a program counter.  Calls into the    *)
(* Context (initialize / prefetch / interpret / cleanup) and into the      *)
(* GrpcReplayService (sendReplayFinished / primeState) are recorded, in    *)
(* order, in the per-request event log of the calling connection.          *)
(*                                                                         *)
(* A second specification, SpecCache, models the start of the process:     *)
(* createCache selecting the cache, and the child it forks to delete the   *)
(* on-disk cache files once the server process has ended.                  *)
(***************************************************************************)
EXTENDS Integers, Sequences, FiniteSets, TLC

\* ------------------------------------------------------------------ bounds
NumConns == 2          \* connections accepted by the server
MaxRequests == 2       \* requests read by all connections together

Conns == 1..NumConns
NoConn == 0            \* nullptr for prewarm_service / prewarm_context, and
                       \* "unlocked" for the mutex
\* The ids a client sends are strings; "" is the empty id.
StateIds == {"", "A", "B"}     \* dependent_id / prerun_id
CleanupIds == {"", "X"}        \* cleanup_id
ReplayIds == {"R"}             \* replay_id

\* ---------------------------------------------------------------- requests
NoReq ==
  [kind |-> "None", replay_id |-> "", dependent_id |-> "",
   prerun_id |-> "", cleanup_id |-> ""]

ReplayReq(r, d) ==
  [kind |-> "Replay", replay_id |-> r, dependent_id |-> d,
   prerun_id |-> "", cleanup_id |-> ""]

PrewarmReq(s, x) ==
  [kind |-> "Prewarm", replay_id |-> "", dependent_id |-> "",
   prerun_id |-> s, cleanup_id |-> x]

Requests ==
  {ReplayReq(r, d) : r \in ReplayIds, d \in StateIds}
    \cup {PrewarmReq(s, x) : s \in StateIds, x \in CleanupIds}

\* ------------------------------------------------------------- PrewarmData
PrewarmData ==
  [prewarm_service |-> NoConn, prewarm_context |-> NoConn,
   prewarm_id |-> "", cleanup_id |-> "", current_state |-> ""]

\* ------------------------------------------------------------------- state
VARIABLES
  prewarm,   \* the shared PrewarmData
  lock,      \* owner of the std::mutex, NoConn when free
  cache,     \* cache != nullptr (the ResourceCache* given to Setup)
  pc,        \* position of each connection's handler
  req,       \* the request each connection read last
  nreq,      \* number of requests read so far
  log,       \* calls made for the request being handled, in order
  entry,     \* PrewarmData as it was when the request took the lock
  last,      \* summary of the request handled last under the lock
  crashed    \* the process died on a call through an invalid pointer

\* The start of the process and the monitor createCache forks.
VARIABLES
  opts,      \* Options::OnDiskCache: enabled, path, cleanUp
  env,       \* what the build and the system answer during createCache
  main,      \* the server process: "start", "running", "exited"
  selected,  \* the ResourceCache createCache returned
  monitor,   \* the forked child: position, ppid, deletion passes begun
  fs         \* what exists of the cache directory ("." is the directory)

cvars == <<opts, env, main, selected, monitor, fs>>

vars == <<prewarm, lock, cache, pc, req, nreq, log, entry, last, crashed,
          cvars>>

CriticalPCs ==
  {"r_check", "r_init", "r_interpret", "r_send", "r_cleanup",
   "p_check", "cs_init", "cs_interpret", "cs_cleanup",
   "ps_init", "ps_interpret", "unlock_next", "unlock_return"}

PCs == {"connect", "idle", "lock_wait", "done"} \cup CriticalPCs

\* The positions whose next step uses the crash handler, the memory manager,
\* a Context or the PrewarmData: the set-up of lines 120-138 (CrashUploader
\* and Context::create take *crashHandler and memMgr) and the steps of the
\* two cases.
SharedAccessPCs ==
  {"connect"} \cup (CriticalPCs \ {"unlock_next", "unlock_return"})

NoLast == [conn |-> NoConn, req |-> NoReq, ok |-> FALSE, primes |-> 0]

\* One recorded call.  by: the code that made it ("replay", "cleanup_state",
\* "prime_state"); ctx: the connection whose Context / service is called.
Ev(op, by, ctx, arg, arg2, ok) ==
  [op |-> op, by |-> by, ctx |-> ctx, arg |-> arg, arg2 |-> arg2, ok |-> ok]

\* context->prefetch(cache) is only called when a cache was given.
Prefetch(by, ctx) ==
  IF cache THEN <<Ev("prefetch", by, ctx, "", "", TRUE)>> ELSE <<>>

\* A Context (or service) pointer is usable while its connection's handler
\* has not returned: the handler owns the Context through a unique_ptr.
Live(x) == x \in Conns /\ pc[x] # "done"

\* Outcomes of a call through pointer x.  A call through nullptr or through
\* a pointer to a destroyed object is undefined: it may crash the process or
\* appear to return either way.
CallResults(x) ==
  IF Live(x) THEN {"ok", "fail"} ELSE {"ok", "fail", "crash"}

\* ------------------------------------------------- the cache of the server
\* Options::OnDiskCache as createCache reads it; "" is the empty path.
OnDiskCacheOptions ==
  [enabled : BOOLEAN, path : {"", "/cache"}, cleanUp : BOOLEAN]

NoEnv == "null"          \* std::getenv returned nullptr
TopAddresses == {128, 256}

\* What the build and the system answer while createCache runs: the target
\* OS, $TMPDIR, whether /tmp is a directory, whether mkdtemp and
\* OnDiskResourceCache::create succeed, memoryManager->getTopAddress(), and
\* whether the monitor may signal the process that adopts it as an orphan.
Environments ==
  [os : {"posix", "other"}, TMPDIR : {NoEnv, "/var/tmp"}, tmpIsDir : BOOLEAN,
   mkdtemp : BOOLEAN, create : BOOLEAN, top : TopAddresses,
   reaperSignalable : BOOLEAN]

\* Lines 71-92.
getTempOnDiskCachePath(e) ==
  LET tmpDir == IF e.TMPDIR # NoEnv THEN e.TMPDIR
                ELSE IF e.tmpIsDir THEN "/tmp" ELSE NoEnv
  IN IF tmpDir = NoEnv THEN ""
     ELSE IF e.mkdtemp THEN tmpDir \o "/gapir-cache.XXXXXX" ELSE ""

\* InMemoryResourceCache::create(memoryManager->getTopAddress()).
InMemoryResourceCache(top) ==
  [kind |-> "memory", size |-> top, path |-> "", cleanUp |-> FALSE]

\* OnDiskResourceCache::create(onDiskCachePath, cleanUpOnDiskCache).
OnDiskResourceCache(path, cleanUp) ==
  [kind |-> "disk", size |-> 0, path |-> path, cleanUp |-> cleanUp]

NoCache == [kind |-> "none", size |-> 0, path |-> "", cleanUp |-> FALSE]

\* Lines 605-609: no path given means a temporary folder, cleaned up.
UseTempCacheFolder(o) == o.path = ""
CleanUpOnDiskCache(o) == o.cleanUp \/ UseTempCacheFolder(o)
OnDiskCachePath(o, e) ==
  IF UseTempCacheFolder(o) THEN getTempOnDiskCachePath(e) ELSE o.path

\* Mutant of OnDiskCreated: the result of create is not checked.
OnDiskAlwaysCreated(o, e) == TRUE

\* Line 619: onDiskCache != nullptr.
OnDiskCreated(o, e) == e.create

\* Lines 596-669, the cache returned.
createCache(o, e) ==
  IF e.os # "posix" \/ ~o.enabled
    THEN InMemoryResourceCache(e.top)
    ELSE IF OnDiskCachePath(o, e) = ""
      THEN InMemoryResourceCache(e.top)
      ELSE IF ~OnDiskCreated(o, e)
        THEN InMemoryResourceCache(e.top)
        ELSE OnDiskResourceCache(OnDiskCachePath(o, e), CleanUpOnDiskCache(o))

\* Mutant of ForksMonitor: only a temporary folder is watched.
ForksMonitorForTempOnly(cleanUp, useTemp) == useTemp

\* Line 625.
ForksMonitor(cleanUp, useTemp) == cleanUp \/ useTemp

NoPid == "none"
NoMonitor == [pc |-> "none", ppid |-> NoPid, passes |-> 0, forks |-> 0,
              walk |-> <<>>]

\* The server that the request handlers run in: started without an on-disk
\* cache, so that createCache has returned the in-memory one.
DefaultOptions == [enabled |-> FALSE, path |-> "", cleanUp |-> FALSE]
DefaultEnvironment ==
  [os |-> "posix", TMPDIR |-> NoEnv, tmpIsDir |-> TRUE, mkdtemp |-> TRUE,
   create |-> TRUE, top |-> 128, reaperSignalable |-> FALSE]

ServerInit ==
  /\ prewarm = PrewarmData
  /\ lock = NoConn
  /\ cache = TRUE     \* both callers of Setup pass the cache they created
  /\ pc = [c \in Conns |-> "connect"]
  /\ req = [c \in Conns |-> NoReq]
  /\ nreq = 0
  /\ log = [c \in Conns |-> <<>>]
  /\ entry = [c \in Conns |-> PrewarmData]
  /\ last = NoLast
  /\ crashed = FALSE

Init ==
  /\ ServerInit
  /\ opts = DefaultOptions
  /\ env = DefaultEnvironment
  /\ main = "running"
  /\ selected = createCache(DefaultOptions, DefaultEnvironment)
  /\ monitor = NoMonitor
  /\ fs = {}

\* What a step of a handler does with its position, its log and the
\* PrewarmData.  "unlock_next" is the end of a case that goes on with the
\* loop (break, continue), "unlock_return" the return from the handler; in
\* both the lock_guard is still to be destroyed.
Goto(c, newpc, newlog, newprewarm) ==
  /\ pc' = [pc EXCEPT ![c] = newpc]
  /\ log' = [log EXCEPT ![c] = newlog]
  /\ prewarm' = newprewarm
  /\ UNCHANGED <<cvars, lock, cache, req, nreq, entry, last, crashed>>

\* A call through an invalid pointer that kills the process.
Crash ==
  /\ crashed' = TRUE
  /\ UNCHANGED <<cvars, prewarm, lock, cache, pc, req, nreq, log, entry, last>>

\* ------------------------------------------------ per-connection set-up
\* Lines 120-138: the handler builds its ResourceLoader, CrashUploader and
\* Context; Context::create may return nullptr, and then the handler returns.
Connect(c) ==
  /\ ~crashed
  /\ pc[c] = "connect"
  /\ \E created \in BOOLEAN :
       pc' = [pc EXCEPT ![c] = IF created THEN "idle" ELSE "done"]
  /\ UNCHANGED <<cvars, prewarm, lock, cache, req, nreq, log, entry, last, crashed>>

\* ---------------------------------------------------------- request loop
\* getReplayRequest returned a Replay or a Prewarm request: the handler goes
\* on to take the lock (lines 199 and 237).
GetRequest(c) ==
  /\ ~crashed
  /\ pc[c] = "idle"
  /\ nreq < MaxRequests
  /\ \E r \in Requests :
       /\ req' = [req EXCEPT ![c] = r]
       /\ pc' = [pc EXCEPT ![c] = "lock_wait"]
  /\ nreq' = nreq + 1
  /\ UNCHANGED <<cvars, prewarm, lock, cache, log, entry, last, crashed>>

\* A request that is neither Replay nor Prewarm: default: break (line 261).
OtherRequest(c) ==
  /\ ~crashed
  /\ pc[c] = "idle"
  /\ nreq < MaxRequests
  /\ nreq' = nreq + 1
  /\ UNCHANGED <<cvars, prewarm, lock, cache, pc, req, log, entry, last, crashed>>

\* getReplayRequest returned nullptr: "No more requests!", break (192-195).
EndOfStream(c) ==
  /\ ~crashed
  /\ pc[c] = "idle"
  /\ pc' = [pc EXCEPT ![c] = "done"]
  /\ UNCHANGED <<cvars, prewarm, lock, cache, req, nreq, log, entry, last, crashed>>

\* Mutant of Acquire: the handler goes on without waiting for the mutex.
AcquireWithoutWaiting(c) ==
  /\ ~crashed
  /\ pc[c] = "lock_wait"
  /\ lock' = c
  /\ entry' = [entry EXCEPT ![c] = prewarm]
  /\ pc' = [pc EXCEPT ![c] =
              IF req[c].kind = "Replay" THEN "r_check" ELSE "p_check"]
  /\ UNCHANGED <<cvars, prewarm, cache, req, nreq, log, last, crashed>>

\* std::lock_guard<std::mutex>(*lock): blocks until the mutex is free.
Acquire(c) ==
  /\ ~crashed
  /\ pc[c] = "lock_wait"
  /\ lock = NoConn
  /\ lock' = c
  /\ entry' = [entry EXCEPT ![c] = prewarm]
  /\ pc' = [pc EXCEPT ![c] =
              IF req[c].kind = "Replay" THEN "r_check" ELSE "p_check"]
  /\ UNCHANGED <<cvars, prewarm, cache, req, nreq, log, last, crashed>>

\* All recorded calls succeeded.
AllOk(l) == \A i \in 1..Len(l) : l[i].ok

\* Number of initialize calls prime_state made.
Primes(l) ==
  Cardinality({i \in 1..Len(l) :
                 l[i].op = "initialize" /\ l[i].by = "prime_state"})

\* Mutant of Release: a return from the handler leaves the mutex locked.
ReleaseOnBreakOnly(c) ==
  /\ ~crashed
  /\ pc[c] \in {"unlock_next", "unlock_return"}
  /\ lock' = IF pc[c] = "unlock_next" THEN NoConn ELSE lock
  /\ pc' = [pc EXCEPT ![c] = IF pc[c] = "unlock_next" THEN "idle" ELSE "done"]
  /\ last' = [conn |-> c, req |-> req[c],
              ok |-> pc[c] = "unlock_next" /\ AllOk(log[c]),
              primes |-> Primes(log[c])]
  /\ req' = [req EXCEPT ![c] = NoReq]
  /\ log' = [log EXCEPT ![c] = <<>>]
  /\ entry' = [entry EXCEPT ![c] = PrewarmData]
  /\ UNCHANGED <<cvars, prewarm, cache, nreq, crashed>>

\* The end of the case's scope: ~lock_guard unlocks the mutex.  The handler
\* then reads its next request, or has returned.
Release(c) ==
  /\ ~crashed
  /\ pc[c] \in {"unlock_next", "unlock_return"}
  /\ lock' = NoConn
  /\ pc' = [pc EXCEPT ![c] = IF pc[c] = "unlock_next" THEN "idle" ELSE "done"]
  /\ last' = [conn |-> c, req |-> req[c],
              ok |-> pc[c] = "unlock_next" /\ AllOk(log[c]),
              primes |-> Primes(log[c])]
  /\ req' = [req EXCEPT ![c] = NoReq]
  /\ log' = [log EXCEPT ![c] = <<>>]
  /\ entry' = [entry EXCEPT ![c] = PrewarmData]
  /\ UNCHANGED <<cvars, prewarm, cache, nreq, crashed>>

\* ------------------------------------------------------------ cleanup_state
\* Mutant of ClearedState: the recorded context and service are kept.
ClearedStateKeepingTarget ==
  [prewarm EXCEPT !.prewarm_id = "", !.cleanup_id = "", !.current_state = ""]

\* Lines 154-158: what a successful cleanup_state leaves in the PrewarmData.
ClearedState ==
  [prewarm EXCEPT !.prewarm_id = "", !.cleanup_id = "", !.current_state = "",
                  !.prewarm_context = NoConn, !.prewarm_service = NoConn]

\* Mutant of AfterCleanupState: the Prewarm case drops the result too.
AfterCleanupStateUnchecked(c, ok) ==
  IF req[c].kind = "Replay"
    THEN IF req[c].dependent_id # "" THEN "ps_init" ELSE "r_init"
    ELSE "ps_init"

\* Where the caller of cleanup_state() goes on after it returned ok.  The
\* Replay case drops the result (line 203) and primes the dependent state
\* when there is one (204-206); the Prewarm case returns from the handler
\* on false (247-252) and goes on to prime_state otherwise.
AfterCleanupState(c, ok) ==
  IF req[c].kind = "Replay"
    THEN IF req[c].dependent_id # "" THEN "ps_init" ELSE "r_init"
    ELSE IF ok THEN "ps_init" ELSE "unlock_return"

\* Line 141: prewarm->prewarm_context->initialize(prewarm->cleanup_id), and
\* the prefetch of 144-146.
CleanupStateInitialize(c) ==
  /\ ~crashed
  /\ pc[c] = "cs_init"
  /\ LET ctx == prewarm.prewarm_context
         call(ok) == Ev("initialize", "cleanup_state", ctx,
                        prewarm.cleanup_id, "", ok)
     IN \E res \in CallResults(ctx) :
          CASE res = "crash" -> Crash
            [] res = "fail" ->
                 Goto(c, AfterCleanupState(c, FALSE),
                      Append(log[c], call(FALSE)), prewarm)
            [] res = "ok" ->
                 Goto(c, "cs_interpret",
                      Append(log[c], call(TRUE)) \o Prefetch("cleanup_state", ctx),
                      prewarm)

\* Lines 147-150: prewarm->prewarm_context->interpret().
CleanupStateInterpret(c) ==
  /\ ~crashed
  /\ pc[c] = "cs_interpret"
  /\ LET ctx == prewarm.prewarm_context
         call(ok) == Ev("interpret", "cleanup_state", ctx, "", "", ok)
     IN \E res \in CallResults(ctx) :
          CASE res = "crash" -> Crash
            [] res = "fail" ->
                 Goto(c, AfterCleanupState(c, FALSE),
                      Append(log[c], call(FALSE)), prewarm)
            [] res = "ok" ->
                 Goto(c, "cs_cleanup", Append(log[c], call(TRUE)), prewarm)

\* Lines 151-159: prewarm->prewarm_context->cleanup(), then the fields are
\* cleared.
CleanupStateCleanup(c) ==
  /\ ~crashed
  /\ pc[c] = "cs_cleanup"
  /\ LET ctx == prewarm.prewarm_context
         call(ok) == Ev("cleanup", "cleanup_state", ctx, "", "", ok)
     IN \E res \in CallResults(ctx) :
          CASE res = "crash" -> Crash
            [] res = "fail" ->
                 Goto(c, AfterCleanupState(c, FALSE),
                      Append(log[c], call(FALSE)), prewarm)
            [] res = "ok" ->
                 Goto(c, AfterCleanupState(c, TRUE),
                      Append(log[c], call(TRUE)), ClearedState)

\* -------------------------------------------------------------- prime_state
\* The arguments of the prime_state call: (dependent_id, "") from the Replay
\* case (line 205), (prerun_id, cleanup_id) from the Prewarm case (254-255).
PrimeState(c) ==
  IF req[c].kind = "Replay" THEN req[c].dependent_id ELSE req[c].prerun_id

PrimeCleanup(c) ==
  IF req[c].kind = "Replay" THEN "" ELSE req[c].cleanup_id

\* Mutant of PrimedState: the context is not recorded with the service.
PrimedStateWithoutContext(c, state, cleanup) ==
  IF cleanup # ""
    THEN [prewarm EXCEPT !.current_state = state, !.cleanup_id = cleanup,
                         !.prewarm_id = state, !.prewarm_service = c]
    ELSE prewarm

\* Mutant of PrimedState: current_state is not recorded.
PrimedStateWithoutCurrent(c, state, cleanup) ==
  IF cleanup # ""
    THEN [prewarm EXCEPT !.cleanup_id = cleanup,
                         !.prewarm_id = state, !.prewarm_service = c,
                         !.prewarm_context = c]
    ELSE prewarm

\* Lines 180-186: a successful prime_state records the state only when it
\* was given a cleanup id.
PrimedState(c, state, cleanup) ==
  IF cleanup # ""
    THEN [prewarm EXCEPT !.current_state = state, !.cleanup_id = cleanup,
                         !.prewarm_id = state, !.prewarm_service = c,
                         !.prewarm_context = c]
    ELSE prewarm

\* Where the caller of prime_state() goes on after it returned ok: the Replay
\* case drops the result (line 205), the Prewarm case returns from the
\* handler on false (254-258) and breaks otherwise (259).
AfterPrimeState(c, ok) ==
  IF req[c].kind = "Replay" THEN "r_init"
    ELSE IF ok THEN "unlock_next" ELSE "unlock_return"

\* Lines 164-172: context->initialize(state) and the prefetch.
PrimeStateInitialize(c) ==
  /\ ~crashed
  /\ pc[c] = "ps_init"
  /\ LET call(ok) == Ev("initialize", "prime_state", c, PrimeState(c), "", ok)
     IN \E res \in CallResults(c) :
          CASE res = "crash" -> Crash
            [] res = "fail" ->
                 Goto(c, AfterPrimeState(c, FALSE),
                      Append(log[c], call(FALSE)), prewarm)
            [] res = "ok" ->
                 Goto(c, "ps_interpret",
                      Append(log[c], call(TRUE)) \o Prefetch("prime_state", c),
                      prewarm)

\* Lines 174-187: context->interpret(false), then the state is recorded.
PrimeStateInterpret(c) ==
  /\ ~crashed
  /\ pc[c] = "ps_interpret"
  /\ LET call(ok) == Ev("interpret", "prime_state", c, "", "", ok)
     IN \E res \in CallResults(c) :
          CASE res = "crash" -> Crash
            [] res = "fail" ->
                 Goto(c, AfterPrimeState(c, FALSE),
                      Append(log[c], call(FALSE)), prewarm)
            [] res = "ok" ->
                 Goto(c, AfterPrimeState(c, TRUE),
                      Append(log[c], call(TRUE)),
                      PrimedState(c, PrimeState(c), PrimeCleanup(c)))

\* ------------------------------------------------------------- case kReplay
\* Mutant of ReplayNeedsState: the state is set up again for every replay.
ReplayAlwaysNeedsState(c) == TRUE

\* Line 201: the shared context is not in the state the replay depends on.
ReplayNeedsState(c) == prewarm.current_state # req[c].dependent_id

\* Lines 201-209: cleanup_state() (and then prime_state) when the state
\* differs, straight to the replay otherwise.
ReplayCheck(c) ==
  /\ ~crashed
  /\ pc[c] = "r_check"
  /\ Goto(c, IF ReplayNeedsState(c) THEN "cs_init" ELSE "r_init",
          log[c], prewarm)

\* Mutant of OnInitializeFailed: the handler returns.
OnInitializeFailedReturn == "unlock_return"

\* Line 215: a failed initialize of the replay `continue`s the loop.
OnInitializeFailed == "unlock_next"

\* Lines 211-219: context->initialize(replay_id) and the prefetch.
ReplayInitialize(c) ==
  /\ ~crashed
  /\ pc[c] = "r_init"
  /\ LET call(ok) == Ev("initialize", "replay", c, req[c].replay_id, "", ok)
     IN \E ok \in BOOLEAN :
          IF ok
            THEN Goto(c, "r_interpret",
                      Append(log[c], call(TRUE)) \o Prefetch("replay", c),
                      prewarm)
            ELSE Goto(c, OnInitializeFailed, Append(log[c], call(FALSE)),
                      prewarm)

\* Mutant of AfterInterpret: only a successful replay is acknowledged.
AfterInterpretAckOnSuccess(ok) == IF ok THEN "r_send" ELSE "r_cleanup"

\* Lines 222-224: whatever interpret returned, sendReplayFinished is next.
AfterInterpret(ok) == "r_send"

\* Line 222: bool ok = context->interpret().
ReplayInterpret(c) ==
  /\ ~crashed
  /\ pc[c] = "r_interpret"
  /\ \E ok \in BOOLEAN :
       Goto(c, AfterInterpret(ok),
            Append(log[c], Ev("interpret", "replay", c, "", "", ok)), prewarm)

\* Line 224: replayConn->sendReplayFinished().
ReplaySendFinished(c) ==
  /\ ~crashed
  /\ pc[c] = "r_send"
  /\ Goto(c, "r_cleanup",
          Append(log[c], Ev("sendReplayFinished", "replay", c, "", "", TRUE)),
          prewarm)

\* Mutant of OnCleanupFailed: the loop goes on.
OnCleanupFailedBreak == "unlock_next"

\* Lines 225-227: a failed cleanup of the replay returns from the handler.
OnCleanupFailed == "unlock_return"

\* Lines 229-230: there is a prewarm to hand on.
HasPrewarm(p) ==
  p.prewarm_service # NoConn /\ p.prewarm_id # "" /\ p.cleanup_id # ""

\* Lines 225-234: context->cleanup(); on success current_state is reset and
\* the recorded service is told to prime the recorded state.
ReplayCleanup(c) ==
  /\ ~crashed
  /\ pc[c] = "r_cleanup"
  /\ LET call(ok) == Ev("cleanup", "replay", c, "", "", ok)
         reset == [prewarm EXCEPT !.current_state = ""]
         prime == Ev("primeState", "replay", prewarm.prewarm_service,
                     prewarm.prewarm_id, prewarm.cleanup_id, TRUE)
     IN \E ok \in BOOLEAN :
          IF ~ok
            THEN Goto(c, OnCleanupFailed, Append(log[c], call(FALSE)), prewarm)
            ELSE IF HasPrewarm(reset)
              THEN \E res \in CallResults(prewarm.prewarm_service) \ {"fail"} :
                     IF res = "crash"
                       THEN Crash
                       ELSE Goto(c, "unlock_next",
                                 Append(log[c], call(TRUE)) \o <<prime>>, reset)
              ELSE Goto(c, "unlock_next", Append(log[c], call(TRUE)), reset)

\* ------------------------------------------------------------ case kPrewarm
\* Line 239: the context is already primed in the requested state.
PrewarmMatches(c) == prewarm.current_state = req[c].prerun_id

\* Mutant of MatchedState: the matching connection becomes the target.
MatchedStateRetargeted(c) ==
  [prewarm EXCEPT !.cleanup_id = req[c].cleanup_id,
                  !.prewarm_service = c, !.prewarm_context = c]

\* Line 243: all a matching Prewarm does.
MatchedState(c) == [prewarm EXCEPT !.cleanup_id = req[c].cleanup_id]

\* Lines 239-253: a matching request only records its cleanup id; otherwise
\* a primed state is cleaned up first, and then the requested one is primed.
PrewarmCheck(c) ==
  /\ ~crashed
  /\ pc[c] = "p_check"
  /\ IF PrewarmMatches(c)
       THEN Goto(c, "unlock_next", log[c], MatchedState(c))
       ELSE Goto(c, IF prewarm.current_state # "" THEN "cs_init" ELSE "ps_init",
                 log[c], prewarm)

\* ------------------------------------------------------------ specification
Next ==
  \E c \in Conns :
    \/ Connect(c)
    \/ GetRequest(c)
    \/ OtherRequest(c)
    \/ EndOfStream(c)
    \/ Acquire(c)
    \/ Release(c)
    \/ ReplayCheck(c)
    \/ CleanupStateInitialize(c)
    \/ CleanupStateInterpret(c)
    \/ CleanupStateCleanup(c)
    \/ PrimeStateInitialize(c)
    \/ PrimeStateInterpret(c)
    \/ ReplayInitialize(c)
    \/ ReplayInterpret(c)
    \/ ReplaySendFinished(c)
    \/ ReplayCleanup(c)
    \/ PrewarmCheck(c)

Spec == Init /\ [][Next]_vars

Events ==
  [op : {"initialize", "prefetch", "interpret", "cleanup",
         "sendReplayFinished", "primeState"},
   by : {"replay", "cleanup_state", "prime_state"},
   ctx : Conns \cup {NoConn},
   arg : StateIds \cup CleanupIds \cup ReplayIds,
   arg2 : CleanupIds,
   ok : BOOLEAN]

PrewarmDatas ==
  [prewarm_service : Conns \cup {NoConn}, prewarm_context : Conns \cup {NoConn},
   prewarm_id : StateIds, cleanup_id : CleanupIds, current_state : StateIds]

TypeOK ==
  /\ prewarm \in PrewarmDatas
  /\ lock \in Conns \cup {NoConn}
  /\ cache \in BOOLEAN
  /\ pc \in [Conns -> PCs]
  /\ req \in [Conns -> Requests \cup {NoReq}]
  /\ nreq \in 0..MaxRequests
  /\ \A c \in Conns : \A i \in 1..Len(log[c]) : log[c][i] \in Events
  /\ entry \in [Conns -> PrewarmDatas]
  /\ last \in [conn : Conns \cup {NoConn}, req : Requests \cup {NoReq},
               ok : BOOLEAN, primes : 0..1]
  /\ crashed \in BOOLEAN

\* ================================================================== claims
\* c is inside the handling of a request (between lock_guard's constructor
\* and its destructor).
InRequest(c) == pc[c] \in CriticalPCs

\* c has run its request to the end of the case and is about to unlock.
Handled(c) == pc[c] \in {"unlock_next", "unlock_return"}

\* The positions in l of the calls of op made by `by`.
Calls(l, op, by) == {i \in 1..Len(l) : l[i].op = op /\ l[i].by = by}

LastEv(l) == l[Len(l)]

\* C1. Mutual exclusion: at most one connection is inside request handling
\* at a time, and that connection owns the mutex, so calls made for requests
\* of different connections never overlap.
C1_MutualExclusion ==
  \A c1 \in Conns :
    InRequest(c1) =>
      /\ lock = c1
      /\ \A c2 \in Conns \ {c1} : ~InRequest(c2) /\ log[c2] = <<>>

\* A replay is being interpreted while another connection, which has read
\* a request, waits for the mutex.
C1_Witness ==
  \E c1, c2 \in Conns :
    /\ c1 # c2
    /\ pc[c1] = "r_interpret"
    /\ pc[c2] = "lock_wait"

\* C2. Acknowledgement-always: a handled Replay request has called
\* sendReplayFinished exactly once, whatever the calls returned.
C2_AckExactlyOnce ==
  \A c \in Conns :
    (Handled(c) /\ req[c].kind = "Replay") =>
      Cardinality(Calls(log[c], "sendReplayFinished", "replay")) = 1

\* C3. Acknowledgement ordering: the cleanup of the replay is not attempted
\* (the handler does not stand at it, and has not called it) before
\* sendReplayFinished was called for the request.
C3_AckBeforeCleanup ==
  \A c \in Conns :
    /\ pc[c] = "r_cleanup" =>
         Calls(log[c], "sendReplayFinished", "replay") # {}
    /\ \A i \in Calls(log[c], "cleanup", "replay") :
         \E j \in Calls(log[c], "sendReplayFinished", "replay") : j < i

\* A replay whose interpret failed has been acknowledged and cleaned up.
C3_Witness ==
  \E c \in Conns :
    /\ Handled(c)
    /\ \E i \in Calls(log[c], "interpret", "replay") : ~log[c][i].ok
    /\ Calls(log[c], "cleanup", "replay") # {}

\* C4. Recoverable Replay failures: a failed initialize(replay_id), and an
\* interpret failure followed by a successful cleanup, end the request with
\* the loop going on: the lock is released and the connection is back at
\* getReplayRequest.
C4_Step(c) ==
  /\ (pc[c] = "r_init" /\ pc'[c] # "r_init" /\ ~LastEv(log'[c]).ok)
       => pc'[c] = "unlock_next"
  /\ (pc[c] = "r_cleanup" /\ pc'[c] # "r_cleanup" /\ LastEv(log'[c]).ok)
       => pc'[c] = "unlock_next"
  /\ (pc[c] = "unlock_next" /\ pc'[c] # "unlock_next")
       => (pc'[c] = "idle" /\ lock' = NoConn)

C4_RecoverableReplayFailures == [][\A c \in Conns : C4_Step(c)]_vars

\* A connection reads a further request after a Replay of its own in which
\* a call failed.
C4_Witness ==
  \E c \in Conns :
    /\ pc[c] = "lock_wait"
    /\ last.conn = c
    /\ last.req.kind = "Replay"
    /\ ~last.ok

\* c handles a Prewarm request equal to the request handled just before it
\* under the lock, which ran to its end with every call succeeding.
RepeatedPrewarm(c) ==
  /\ lock = c
  /\ req[c].kind = "Prewarm"
  /\ last.req = req[c]
  /\ last.ok

\* The second of two equal Prewarm requests makes no call and changes
\* nothing but the recorded cleanup_id.
SecondPrewarmIdle(c) ==
  /\ log[c] = <<>>
  /\ pc[c] \in {"p_check", "unlock_next"}
  /\ pc[c] = "unlock_next" =>
       prewarm = [entry[c] EXCEPT !.cleanup_id = req[c].cleanup_id]

\* C5 as stated. Prewarm idempotence for every state id S and cleanup id C:
\* Prewarm(S, C) twice in a row runs exactly one initialize/interpret cycle
\* for S, and the second request makes no call.
C5_PrewarmIdempotentForAllIds ==
  \A c \in Conns :
    RepeatedPrewarm(c) => (SecondPrewarmIdle(c) /\ last.primes = 1)

\* C5 as amended. For every S and every non-empty C, the second of two
\* Prewarm(S, C) in a row makes no call and changes nothing but cleanup_id,
\* so that the two requests run at most one cycle for S.
C5_PrewarmIdempotent ==
  \A c \in Conns :
    (RepeatedPrewarm(c) /\ req[c].cleanup_id # "") =>
      (SecondPrewarmIdle(c) /\ last.primes <= 1)

\* The second Prewarm("A", "X") has been handled, the first having primed A.
C5_Witness ==
  \E c \in Conns :
    /\ RepeatedPrewarm(c)
    /\ req[c].prerun_id = "A"
    /\ req[c].cleanup_id = "X"
    /\ last.primes = 1
    /\ pc[c] = "unlock_next"

\* C6. A Prewarm whose prerun_id is the current state makes no call on any
\* context and leaves current_state, prewarm_id and the target as they were;
\* it sets cleanup_id to the request's.
C6_MatchingPrewarmNoOp ==
  \A c \in Conns :
    (lock = c /\ req[c].kind = "Prewarm"
       /\ entry[c].current_state = req[c].prerun_id) =>
      /\ log[c] = <<>>
      /\ pc[c] \in {"p_check", "unlock_next"}
      /\ pc[c] = "p_check" => prewarm = entry[c]
      /\ pc[c] = "unlock_next" =>
           prewarm = [entry[c] EXCEPT !.cleanup_id = req[c].cleanup_id]

\* A matching Prewarm of another connection than the target has replaced a
\* non-empty cleanup_id.
C6_Witness ==
  \E c \in Conns :
    /\ pc[c] = "unlock_next"
    /\ req[c].kind = "Prewarm"
    /\ entry[c].current_state = req[c].prerun_id
    /\ entry[c].prewarm_service \notin {c, NoConn}
    /\ entry[c].cleanup_id # req[c].cleanup_id

\* C7. State reuse: a Replay(R, D) that finds current_state = D runs neither
\* cleanup_state nor prime_state; its first call is initialize(R) on the
\* connection's own context.
C7_StateReuse ==
  \A c \in Conns :
    (lock = c /\ req[c].kind = "Replay"
       /\ entry[c].current_state = req[c].dependent_id) =>
      /\ \A i \in 1..Len(log[c]) : log[c][i].by = "replay"
      /\ pc[c] \notin {"cs_init", "cs_interpret", "cs_cleanup",
                       "ps_init", "ps_interpret"}
      /\ log[c] # <<>> =>
           /\ log[c][1].op = "initialize"
           /\ log[c][1].arg = req[c].replay_id
           /\ log[c][1].ctx = c

\* A Replay that depends on the primed state "A" has initialized R.
C7_Witness ==
  \E c \in Conns :
    /\ lock = c
    /\ req[c].kind = "Replay"
    /\ req[c].dependent_id = "A"
    /\ entry[c].current_state = "A"
    /\ pc[c] = "r_interpret"

\* C8. Cleanup before prime: a Replay(R, D) that finds a state primed other
\* than D starts prime_state, and the initialize of R, only after
\* cleanup_state has run to its end (its cleanup call succeeded).
C8_CleanupBeforePrime ==
  \A c \in Conns :
    (lock = c /\ req[c].kind = "Replay"
       /\ entry[c].current_state # ""
       /\ entry[c].current_state # req[c].dependent_id) =>
      \A i \in 1..Len(log[c]) :
        log[c][i].by \in {"prime_state", "replay"} =>
          \E j \in Calls(log[c], "cleanup", "cleanup_state") :
            j < i /\ log[c][j].ok

\* Exactly the failed call of a request, when there is one, is its last.
FailureIsLast(l) == \A i \in 1..Len(l) : ~l[i].ok => i = Len(l)

\* C9. Fatal propagation in Prewarm: a failed cleanup_state or prime_state
\* ends the handler at once: nothing is called after the failed call (no
\* prime_state after a failed cleanup_state), the handler returns, the lock
\* is released and the connection handles no further request.
C9_Failed(c) ==
  (req[c].kind = "Prewarm" /\ \E i \in 1..Len(log[c]) : ~log[c][i].ok) =>
    (pc[c] = "unlock_return" /\ FailureIsLast(log[c]))

C9_Step(c) ==
  /\ (pc[c] = "unlock_return" /\ pc'[c] # "unlock_return")
       => (pc'[c] = "done" /\ lock' = NoConn)
  /\ pc[c] = "done" => (pc'[c] = "done" /\ log'[c] = <<>>)

C9_FatalPrewarm ==
  /\ [](\A c \in Conns : C9_Failed(c))
  /\ [][\A c \in Conns : C9_Step(c)]_vars

\* The cleanup_state of a Prewarm request has failed.
C9_Witness ==
  \E c \in Conns :
    /\ req[c].kind = "Prewarm"
    /\ pc[c] = "unlock_return"
    /\ LastEv(log[c]).by = "cleanup_state"
    /\ ~LastEv(log[c]).ok

\* C10. Fatal Replay cleanup: when the cleanup that follows the replay's
\* interpret fails, the handler returns; the PrewarmData (current_state
\* included) stays as it was, primeState is not called, the lock is released
\* and the connection handles no further request.
C10_Step(c) ==
  /\ (pc[c] = "r_cleanup" /\ pc'[c] # "r_cleanup" /\ ~LastEv(log'[c]).ok)
       => /\ pc'[c] = "unlock_return"
          /\ prewarm' = prewarm
          /\ Calls(log'[c], "primeState", "replay") = {}
  /\ (pc[c] = "unlock_return" /\ pc'[c] # "unlock_return")
       => (pc'[c] = "done" /\ lock' = NoConn /\ prewarm' = prewarm)
  /\ pc[c] = "done" => (pc'[c] = "done" /\ log'[c] = <<>>)

C10_FatalReplayCleanup == [][\A c \in Conns : C10_Step(c)]_vars

\* The cleanup of a replay has failed with a state current and a prewarm
\* recorded that a successful cleanup would have handed on.
C10_Witness ==
  \E c \in Conns :
    /\ req[c].kind = "Replay"
    /\ pc[c] = "unlock_return"
    /\ LastEv(log[c]).op = "cleanup"
    /\ LastEv(log[c]).by = "replay"
    /\ prewarm.current_state # ""
    /\ HasPrewarm(prewarm)

\* C11. Cleanup failure is fatal in Replay too: when cleanup_state fails
\* while a Replay request is handled, the handler returns at once: nothing
\* is called after the failed call (neither prime_state nor the initialize
\* of the replay).  The case stated is the one of a cleanup_state that
\* was run on the context of a connection that is still open.
C11_FatalCleanupStateInReplay ==
  \A c \in Conns :
    (req[c].kind = "Replay"
       /\ Live(entry[c].prewarm_context)
       /\ \E i \in 1..Len(log[c]) :
            log[c][i].by = "cleanup_state" /\ ~log[c][i].ok) =>
      (pc[c] = "unlock_return" /\ FailureIsLast(log[c]))

\* C12. Pairing invariant: in every reachable state prewarm_id and
\* cleanup_id are both empty or both non-empty.
C12_PairingInvariant ==
  (prewarm.prewarm_id = "") <=> (prewarm.cleanup_id = "")

\* The id current_state is to hold after the calls of l, when it held cur
\* before them: a successful prime_state (its interpret succeeded) loads
\* `primed`, which is tracked when `tracked` holds; a successful cleanup (of
\* cleanup_state or of the replay) leaves no snapshot.
RECURSIVE StateAfter(_, _, _, _)
StateAfter(l, cur, primed, tracked) ==
  IF l = <<>>
    THEN cur
    ELSE LET e == Head(l)
             next == IF e.ok /\ e.op = "interpret" /\ e.by = "prime_state"
                       THEN IF tracked THEN primed ELSE cur
                       ELSE IF e.ok /\ e.op = "cleanup" THEN "" ELSE cur
         IN StateAfter(Tail(l), next, primed, tracked)

\* C13 as stated. When a request has been handled, current_state is the id
\* of the snapshot prime_state loaded last and that was not cleaned up
\* since, with whatever cleanup id it was primed.
C13_CurrentStateIsLoadedState ==
  \A c \in Conns :
    Handled(c) =>
      prewarm.current_state =
        StateAfter(log[c], entry[c].current_state, PrimeState(c), TRUE)

\* C13 as amended. current_state is the id of the snapshot prime_state
\* loaded last with a non-empty cleanup id and that was not cleaned up
\* since; a snapshot primed with an empty cleanup id is not tracked.
C13_CurrentStateIsRegisteredState ==
  \A c \in Conns :
    Handled(c) =>
      prewarm.current_state =
        StateAfter(log[c], entry[c].current_state, PrimeState(c),
                   PrimeCleanup(c) # "")

\* A Prewarm has cleaned up the state "A" and primed "B" in its place.
C13_Witness ==
  \E c \in Conns :
    /\ Handled(c)
    /\ entry[c].current_state = "A"
    /\ Calls(log[c], "cleanup", "cleanup_state") # {}
    /\ AllOk(log[c])
    /\ prewarm.current_state = "B"

\* The step of c that follows sendReplayFinished: context->cleanup() and
\* what comes after it.
C14_Step ==
  \A c \in Conns :
    (pc[c] = "r_cleanup" /\ (pc'[c] # pc[c] \/ crashed' # crashed)) =>
      LET cleanup(ok) == Ev("cleanup", "replay", c, "", "", ok)
          request == Ev("primeState", "replay", prewarm.prewarm_service,
                        prewarm.prewarm_id, prewarm.cleanup_id, TRUE)
          pending == /\ prewarm.prewarm_service # NoConn
                     /\ prewarm.prewarm_id # ""
                     /\ prewarm.cleanup_id # ""
      IN \/ log'[c] = Append(log[c], cleanup(FALSE))
         \/ /\ prewarm' = [prewarm EXCEPT !.current_state = ""]
            /\ log'[c] = Append(log[c], cleanup(TRUE))
                           \o (IF pending THEN <<request>> ELSE <<>>)

\* C14. Prewarm handoff: a Replay whose cleanup succeeds resets
\* current_state and then, if and only if prewarm_service, prewarm_id and
\* cleanup_id are all set, makes exactly one primeState(prewarm_id,
\* cleanup_id) call that reaches the recorded service.
C14_PrewarmHandoff == [][C14_Step]_vars

\* The scenario of C14 on one connection: after Prewarm("A", "X") primed A
\* once, Replay("R", "A") with every call succeeding initializes R without
\* priming A again, interprets, acknowledges, cleans up and requests the
\* prime of A with cleanup X from the same connection.
C14_Scenario ==
  \A c \in Conns :
    (/\ pc[c] = "unlock_next"
     /\ req[c] = ReplayReq("R", "A")
     /\ last = [conn |-> c, req |-> PrewarmReq("A", "X"), ok |-> TRUE,
                primes |-> 1]
     /\ AllOk(log[c])) =>
      log[c] = <<Ev("initialize", "replay", c, "R", "", TRUE)>>
                 \o Prefetch("replay", c)
                 \o <<Ev("interpret", "replay", c, "", "", TRUE),
                      Ev("sendReplayFinished", "replay", c, "", "", TRUE),
                      Ev("cleanup", "replay", c, "", "", TRUE),
                      Ev("primeState", "replay", c, "A", "X", TRUE)>>

C14_ScenarioReached ==
  \E c \in Conns :
    /\ pc[c] = "unlock_next"
    /\ req[c] = ReplayReq("R", "A")
    /\ last = [conn |-> c, req |-> PrewarmReq("A", "X"), ok |-> TRUE,
               primes |-> 1]
    /\ AllOk(log[c])

\* C15. Lock scope: the mutex is held by a connection only while it handles
\* a Replay or Prewarm request.  A connection that is setting up, reading
\* its next request, waiting for the mutex or has returned from its handler
\* (after a normal end, a `continue` or a fatal return) does not hold it.
C15_LockScope ==
  /\ lock # NoConn => InRequest(lock)
  /\ \A c \in Conns : ~InRequest(c) => lock # c

\* A connection acquired the mutex after another one returned from its
\* handler on a failed call.
C15_Witness ==
  \E c1, c2 \in Conns :
    /\ pc[c1] = "done"
    /\ last.conn = c1 /\ last.req.kind # "None" /\ ~last.ok
    /\ lock = c2

\* A step of c from a position that uses the shared objects.
C16_Step ==
  \A c \in Conns :
    (pc[c] \in SharedAccessPCs /\ pc'[c] # pc[c]) => lock = c

\* C16. Lock coverage: every step of a connection that uses the crash
\* handler, the memory manager, a Context or the PrewarmData is taken while
\* that connection holds the mutex, the set-up before the first request
\* included.
C16_LockCoverage == [][C16_Step]_vars

\* The part of C16 about the request loop: the PrewarmData and the Contexts
\* are used under the mutex only.
C16_RequestLoopCovered ==
  \A c \in Conns : pc[c] \in SharedAccessPCs \ {"connect"} => lock = c

\* =========================================== start-up and the cache monitor
\* What can exist in the cache directory: a file, a sub-directory and a file
\* in the sub-directory.  "." is the cache directory itself.
Nodes == {"f", "s", "s/g"}
Parent == ("f" :> ".") @@ ("s" :> ".") @@ ("s/g" :> "s")
IsDir(n) == n \in {".", "s"}

\* n is below directory d.
Under(n, d) == n # "." /\ (d = "." \/ Parent[n] = d)

\* The orders in which nftw with FTW_DEPTH reports the tree S: every
\* directory after all that is below it, and a sub-tree without interruption.
PostOrders(S) ==
  {w \in [1..Cardinality(S) -> S] :
     /\ \A i, j \in DOMAIN w : i # j => w[i] # w[j]
     /\ \A i, j \in DOMAIN w : Under(w[i], w[j]) => i < j
     /\ \A i, j, k \in DOMAIN w :
          (i < k /\ k < j /\ Under(w[i], w[j])) => Under(w[k], w[j])}

\* unlink(2) and rmdir(2): whether the call returns 0, and what is left.
Unlink(n, S) ==
  IF n \in S /\ ~IsDir(n) THEN [ok |-> TRUE, fs |-> S \ {n}]
                           ELSE [ok |-> FALSE, fs |-> S]

Rmdir(n, S) ==
  IF n \in S /\ IsDir(n) /\ ~\E m \in S : Under(m, n)
    THEN [ok |-> TRUE, fs |-> S \ {n}]
    ELSE [ok |-> FALSE, fs |-> S]

\* The typeflag nftw passes under FTW_DEPTH: a directory is reported after
\* its contents, as FTW_DP.
TypeFlag(n) == IF IsDir(n) THEN "FTW_DP" ELSE "FTW_F"

\* Lines 636-645, the callback given to nftw.
Callback(n, S) == IF TypeFlag(n) = "FTW_D" THEN Rmdir(n, S) ELSE Unlink(n, S)

\* Mutant of KillSucceeds: the parent is never found alive.
KillNeverSucceeds(pid) == FALSE

\* Line 628: kill(ppid, 0) == 0.  The parent can be signalled while it
\* lives; the process that adopted an orphaned monitor lives on.
KillSucceeds(pid) ==
  IF pid = "parent" THEN main # "exited" ELSE env.reaperSignalable

MonitorGoto(newpc) ==
  /\ monitor' = [monitor EXCEPT !.pc = newpc]
  /\ UNCHANGED <<prewarm, lock, cache, pc, req, nreq, log, entry, last,
                 crashed, opts, env, main, selected, fs>>

\* Line 751 with lines 596-669 in the parent: the cache is selected, and a
\* monitor is forked for an on-disk cache that is to be cleaned up.  mkdtemp
\* and OnDiskResourceCache::create leave the directory behind.
CreateCache ==
  /\ main = "start"
  /\ LET c == createCache(opts, env)
         forked == c.kind = "disk"
                     /\ ForksMonitor(CleanUpOnDiskCache(opts),
                                     UseTempCacheFolder(opts))
         made == /\ env.os = "posix" /\ opts.enabled
                 /\ OnDiskCachePath(opts, env) # ""
                 /\ (UseTempCacheFolder(opts) \/ c.kind = "disk")
     IN /\ selected' = c
        /\ monitor' = IF forked
                        THEN [NoMonitor EXCEPT !.pc = "getppid",
                                               !.forks = monitor.forks + 1]
                        ELSE monitor
        /\ fs' = IF made THEN {"."} ELSE {}
  /\ main' = "running"
  /\ UNCHANGED <<prewarm, lock, cache, pc, req, nreq, log, entry, last,
                 crashed, opts, env>>

\* The running server fills its on-disk cache.
CacheWrite ==
  /\ main = "running"
  /\ selected.kind = "disk"
  /\ \E n \in Nodes \ fs :
       /\ Parent[n] \in fs
       /\ fs' = fs \cup {n}
  /\ UNCHANGED <<prewarm, lock, cache, pc, req, nreq, log, entry, last,
                 crashed, opts, env, main, selected, monitor>>

\* Somebody else removes the cache directory while the server runs.
RemoveCacheDir ==
  /\ main = "running"
  /\ fs # {}
  /\ fs' = {}
  /\ UNCHANGED <<prewarm, lock, cache, pc, req, nreq, log, entry, last,
                 crashed, opts, env, main, selected, monitor>>

\* The server process ends: startServer returns, or the process is killed.
ParentExit ==
  /\ main = "running"
  /\ main' = "exited"
  /\ UNCHANGED <<prewarm, lock, cache, pc, req, nreq, log, entry, last,
                 crashed, opts, env, selected, monitor, fs>>

\* Line 627: pid_t ppid = getppid(), in the child.  A child whose parent has
\* ended already belongs to another process.
MonitorGetppid ==
  /\ monitor.pc = "getppid"
  /\ monitor' = [monitor EXCEPT
                   !.pc = "poll",
                   !.ppid = IF main = "exited" THEN "reaper" ELSE "parent"]
  /\ UNCHANGED <<prewarm, lock, cache, pc, req, nreq, log, entry, last,
                 crashed, opts, env, main, selected, fs>>

\* Line 628: while (!kill(ppid, 0)).
MonitorPoll ==
  /\ monitor.pc = "poll"
  /\ MonitorGoto(IF KillSucceeds(monitor.ppid) THEN "sleep" ELSE "opendir")

\* Line 630: usleep(500000).
MonitorSleep ==
  /\ monitor.pc = "sleep"
  /\ MonitorGoto("poll")

\* Lines 632-634 and 659: opendir; without the directory the child exits,
\* with it the deletion begins, by nftw or by the cache's destructor.
MonitorOpendir ==
  /\ monitor.pc = "opendir"
  /\ IF "." \notin fs
       THEN monitor' = [monitor EXCEPT !.pc = "exited"]
       ELSE IF UseTempCacheFolder(opts)
         THEN \E w \in PostOrders(fs) :
                monitor' = [monitor EXCEPT !.pc = "nftw", !.walk = w,
                                           !.passes = monitor.passes + 1]
         ELSE monitor' = [monitor EXCEPT !.pc = "reset",
                                         !.passes = monitor.passes + 1]
  /\ UNCHANGED <<prewarm, lock, cache, pc, req, nreq, log, entry, last,
                 crashed, opts, env, main, selected, fs>>

\* Lines 635-646: nftw calls the callback for the next entry and stops at
\* the first call that does not return 0.
MonitorVisit ==
  /\ monitor.pc = "nftw"
  /\ LET r == Callback(monitor.walk[1], fs)
         rest == [i \in 1..(Len(monitor.walk) - 1) |-> monitor.walk[i + 1]]
     IN /\ fs' = r.fs
        /\ monitor' = IF r.ok /\ rest # <<>>
                        THEN [monitor EXCEPT !.walk = rest]
                        ELSE [monitor EXCEPT !.walk = <<>>, !.pc = "rmdir"]
  /\ UNCHANGED <<prewarm, lock, cache, pc, req, nreq, log, entry, last,
                 crashed, opts, env, main, selected>>

\* Lines 647 and 659: rmdir(onDiskCachePath), exit(0).
MonitorRmdir ==
  /\ monitor.pc = "rmdir"
  /\ fs' = Rmdir(".", fs).fs
  /\ monitor' = [monitor EXCEPT !.pc = "exited"]
  /\ UNCHANGED <<prewarm, lock, cache, pc, req, nreq, log, entry, last,
                 crashed, opts, env, main, selected>>

\* The cache's own teardown: the destructor of an OnDiskResourceCache
\* created with "clean up" deletes the cache files.
CacheTeardown(S) == {n \in S : IsDir(n)}

\* Lines 651 and 659: onDiskCache.reset(nullptr), exit(0).
MonitorReset ==
  /\ monitor.pc = "reset"
  /\ fs' = CacheTeardown(fs)
  /\ monitor' = [monitor EXCEPT !.pc = "exited"]
  /\ UNCHANGED <<prewarm, lock, cache, pc, req, nreq, log, entry, last,
                 crashed, opts, env, main, selected>>

MonitorNext ==
  \/ MonitorGetppid
  \/ MonitorPoll
  \/ MonitorSleep
  \/ MonitorOpendir
  \/ MonitorVisit
  \/ MonitorRmdir
  \/ MonitorReset

InitCache ==
  /\ ServerInit
  /\ opts \in OnDiskCacheOptions
  /\ env \in Environments
  /\ main = "start"
  /\ selected = NoCache
  /\ monitor = NoMonitor
  /\ fs = {}

NextCache ==
  \/ CreateCache
  \/ CacheWrite
  \/ RemoveCacheDir
  \/ ParentExit
  \/ MonitorNext

SpecCache == InitCache /\ [][NextCache]_vars

\* The monitor is a process of its own: the system keeps scheduling it.
SpecCacheFair == SpecCache /\ WF_vars(MonitorNext)

MonitorPCs ==
  {"none", "getppid", "poll", "sleep", "opendir", "nftw", "rmdir", "reset",
   "exited"}

TypeOKCache ==
  /\ opts \in OnDiskCacheOptions
  /\ env \in Environments
  /\ main \in {"start", "running", "exited"}
  /\ selected.kind \in {"none", "memory", "disk"}
  /\ monitor.pc \in MonitorPCs
  /\ monitor.ppid \in {NoPid, "parent", "reaper"}
  /\ monitor.passes \in 0..1
  /\ monitor.forks \in 0..1
  /\ fs \subseteq Nodes \cup {"."}

\* ------------------------------------------------------- claims C17 to C20
\* createCache has returned.
Started == main # "start"
Spawned == monitor.pc # "none"

\* The configurations of C17: caching disabled (or not supported by the
\* build), no path given and none obtainable, or the on-disk cache could
\* not be constructed.
NoPathObtainable ==
  /\ opts.path = ""
  /\ \/ env.TMPDIR = NoEnv /\ ~env.tmpIsDir
     \/ ~env.mkdtemp

FallsBack ==
  \/ env.os # "posix"
  \/ ~opts.enabled
  \/ NoPathObtainable
  \/ ~env.create

\* C17. Cache fallback: with caching disabled, no cache path obtainable or
\* the on-disk construction failing, createCache returns (the server goes
\* on to run) the in-memory cache sized by the top address, and no monitor
\* is forked.
C17_CacheFallback ==
  (Started /\ FallsBack) =>
    /\ selected = InMemoryResourceCache(env.top)
    /\ ~Spawned
    /\ monitor.forks = 0

\* An on-disk cache at a given path could not be constructed, and the server
\* runs with the in-memory cache.
C17_Witness ==
  /\ main = "running"
  /\ env.os = "posix" /\ opts.enabled /\ opts.path # "" /\ ~env.create
  /\ selected.kind = "memory"
  /\ selected.size = env.top

C18_NoMonitorForKeptCache ==
  (Started /\ selected.kind = "disk" /\ opts.path # "" /\ ~opts.cleanUp) =>
    ~Spawned

\* The monitor is deleting, or about to.
Deleting == monitor.pc \in {"opendir", "nftw", "rmdir", "reset"}

\* C19. Monitor safety: the monitor is past its polling loop only when the
\* parent has ended, a deletion pass has begun only then, and at most one
\* pass is ever begun.
C19_MonitorSafety ==
  /\ (Deleting \/ monitor.passes > 0) => main = "exited"
  /\ monitor.passes <= 1

\* The monitor has made its pass over a temporary folder with a file in it
\* and has exited, leaving nothing.
C19_Witness ==
  /\ monitor.pc = "exited"
  /\ monitor.passes = 1
  /\ UseTempCacheFolder(opts)
  /\ main = "exited"
  /\ fs = {}

\* C20. Monitor liveness: once the parent has ended, the monitor finds out
\* at a poll, makes its pass and exits; and it never exits before the
\* parent.
C20_MonitorLiveness ==
  /\ (Spawned /\ main = "exited") ~> (monitor.pc = "exited")
  /\ [](monitor.pc = "exited" => main = "exited")

\* The part of C20 that holds: a monitor that read its parent's pid while
\* the parent lived exits once the parent has ended.
C20_LivenessWithParentPid ==
  (monitor.ppid = "parent" /\ main = "exited") ~> (monitor.pc = "exited")

C20_NeverExitsFirst == monitor.pc = "exited" => main = "exited"

\* ------------------------------------------------------- claims C21 to C25
CleanupStatePCs == {"cs_init", "cs_interpret", "cs_cleanup"}

\* A step of cleanup_state run by c, with the calls it made.
C21_Step ==
  \A c \in Conns :
    (pc[c] \in CleanupStatePCs /\ pc'[c] # pc[c]) =>
      LET new == SubSeq(log'[c], Len(log[c]) + 1, Len(log'[c]))
          failed == \E i \in 1..Len(new) : ~new[i].ok
          returned == pc'[c] \notin CleanupStatePCs
      IN /\ new # <<>>
         /\ \A i \in 1..Len(new) : new[i].by = "cleanup_state"
         /\ pc[c] = "cs_init" =>
              /\ new[1].op = "initialize"
              /\ new[1].arg = entry[c].cleanup_id
              /\ new[1].arg = prewarm.cleanup_id
         /\ IF failed
              THEN /\ returned
                   /\ prewarm' = prewarm
                   /\ req[c].kind = "Prewarm" => pc'[c] = "unlock_return"
              ELSE IF pc[c] = "cs_cleanup"
                THEN /\ returned
                     /\ prewarm' = PrewarmData
                     /\ req[c].kind = "Prewarm" => pc'[c] = "ps_init"
                ELSE /\ ~returned
                     /\ prewarm' = prewarm

\* C21. cleanup_state is all-or-nothing on the PrewarmData: a failed
\* initialize, interpret or cleanup returns false with the five fields as
\* they were, three successes return true with all of them cleared; and the
\* id initialized is the recorded cleanup_id.
C21_CleanupStateAllOrNothing == [][C21_Step]_vars

\* cleanup_state has failed at its interpret, and the recorded pairing is
\* still there.
C21_Witness ==
  \E c \in Conns :
    /\ \E i \in 1..Len(log[c]) :
         /\ log[c][i].by = "cleanup_state" /\ log[c][i].op = "interpret"
         /\ ~log[c][i].ok
    /\ prewarm = entry[c]
    /\ prewarm.prewarm_id = "A" /\ prewarm.cleanup_id = "X"
    /\ prewarm.prewarm_context # NoConn

\* cleanup_state has succeeded and has cleared the PrewarmData.
C21_Cleared ==
  \E c \in Conns :
    /\ pc[c] = "ps_init"
    /\ Calls(log[c], "cleanup", "cleanup_state") # {}
    /\ entry[c].prewarm_id = "A"
    /\ prewarm = PrewarmData

\* C22. Deletion pass completeness: when the monitor of a temporary cache
\* folder has made its pass and exited, the folder and all that was in it,
\* sub-directories included, are gone.
C22_DeletionComplete ==
  (monitor.pc = "exited" /\ monitor.passes = 1 /\ UseTempCacheFolder(opts)) =>
    fs = {}

\* The part of C22 that holds: a folder that holds files only is removed
\* with its files.
C22_FlatFolderRemoved ==
  (monitor.pc = "exited" /\ monitor.passes = 1 /\ UseTempCacheFolder(opts)
     /\ "s" \notin fs) =>
    fs = {}

\* The handler of connection x has returned: its Context and its service
\* are gone.
Closed(x) == x \in Conns /\ pc[x] = "done"

\* A step in which c calls through the recorded context (cleanup_state) or
\* the recorded service (primeState after a replay); a call that crashes the
\* process is such a step too.
C23_Step ==
  \A c \in Conns :
    /\ (pc[c] \in CleanupStatePCs /\ (pc'[c] # pc[c] \/ crashed' # crashed)) =>
         ~Closed(prewarm.prewarm_context)
    /\ (pc[c] = "r_cleanup"
          /\ \/ crashed' # crashed
             \/ Calls(log'[c], "primeState", "replay") # {}) =>
         ~Closed(prewarm.prewarm_service)

\* C23. No use of a closed prewarm target: whenever cleanup_state calls the
\* recorded context, or a Replay calls primeState on the recorded service,
\* the connection that recorded them is still open.
C23_NoUseOfClosedTarget == [][C23_Step]_vars

\* C24. cleanup_state always has a target: whenever a request runs
\* cleanup_state, a context is recorded in prewarm_context.
C24_CleanupStateHasContext ==
  \A c \in Conns :
    pc[c] \in CleanupStatePCs => prewarm.prewarm_context # NoConn

\* The part of C24 that holds: cleanup_state run with a state primed (by
\* the Prewarm case always) finds a context recorded.
C24_PrimedStateHasContext ==
  \A c \in Conns :
    (pc[c] \in CleanupStatePCs
       /\ (req[c].kind = "Prewarm" \/ entry[c].current_state # "")) =>
      prewarm.prewarm_context # NoConn

\* C25. Consistency of the PrewarmData: current_state is empty or equal to
\* prewarm_id; prewarm_service and prewarm_context are both set or both
\* unset, and set to the service and the context of one connection; and with
\* a non-empty prewarm_id they are set.
C25_PrewarmDataConsistent ==
  /\ prewarm.current_state \in {"", prewarm.prewarm_id}
  /\ prewarm.prewarm_service = prewarm.prewarm_context
  /\ prewarm.prewarm_id # "" => prewarm.prewarm_service # NoConn

\* A replay has used the state a Prewarm primed: the pairing is still
\* recorded, with its connection, and no state is primed.
C25_Witness ==
  /\ lock = NoConn
  /\ last.req.kind = "Replay" /\ last.ok
  /\ prewarm.prewarm_id = "A" /\ prewarm.cleanup_id = "X"
  /\ prewarm.current_state = ""
  /\ prewarm.prewarm_service \in Conns

====
